---- MODULE Spec2Model ----
(***************************************************************************)
(* State-machine model of the discovery session logic of                   *)
(* src/src/discovery_agent.py (DiscoveryAgent, DiscoverySession) and of    *)
(* the workshop handlers of src/src/discovery_workshop.py that write the   *)
(* agent's session and answer cache directly.                              *)
(*                                                                         *)
(* Conventions.                                                            *)
(*  - A confidence is an integer number of hundredths (0.85 is 85).        *)
(*  - completion_percentage is the exact rational <<num, den>>; the float  *)
(*    0.0 of a new session is <<0, 1>>.                                    *)
(*  - Python None is the string "None"; a key missing from a JSON object   *)
(*    is a field missing from the record.                                  *)
(*  - A dict is a function; the insertion order of session.answers is not  *)
(*    kept (no operation modelled here depends on it: the exported list    *)
(*    has unique ids, and import of a list with unique ids is order        *)
(*    independent).                                                        *)
(***************************************************************************)
EXTENDS Integers, Sequences, FiniteSets, TLC

VARIABLES
    session,          \* "none" | "active"          (DiscoveryAgent.session)
    answers,          \* session.answers: question_id -> DiscoveryAnswer
    completion,       \* session.completion_percentage, <<num, den>>
    answer_cache,     \* DiscoveryAgent.answer_cache: question_id -> DiscoveryAnswer
    use_search_index, \* DiscoveryAgent.use_search_index
    results_file,     \* newest discovery_results_*.json on disk, or NoFile
    checkpoint_file,  \* checkpoint_<session_id>.json on disk, or NoFile
    batch,            \* 0: no analysis running; i > 0: _analyze_with_search_index
                      \* is about to handle SearchOrder[i] (Len+1: loop finished)
    last,             \* the step that produced this state (history variable)
    ops,              \* number of operations called so far (history variable)
    DISCOVERY_QUESTIONS, \* the question catalog of discovery_framework.py, in
                      \* definition order; no operation changes it
    config,           \* the required settings that the environment does not
                      \* define (Config reads them as None); no operation
                      \* changes it
    search_available, \* FALSE: the search collaborator is down, every query
                      \* raises; no operation changes it
    awaiting          \* None, or the question whose iteration of
                      \* _analyze_with_search_index has passed the 'already
                      \* answered' check and awaits its collaborators while
                      \* another task of the event loop runs

vars == <<session, answers, completion, answer_cache, use_search_index,
          results_file, checkpoint_file, batch, last, ops, DISCOVERY_QUESTIONS,
          config, search_available, awaiting>>

---------------------------------------------------------------------------
(* Bounds of the model *)

\* number of catalog questions kept from DISCOVERY_QUESTIONS
NumQuestions == 3

\* number of operations called on the agent in one behaviour
MaxOps == 3

\* number of catalog questions of the interview specification (more than
\* auto_save_interval, so that the checkpoint falls due)
InterviewQuestions == 6

---------------------------------------------------------------------------
(* Program constants *)

confidence_threshold == 85

auto_save_interval == 5

\* variant: the default confidence is the threshold
DefaultConfidenceAtThreshold == confidence_threshold

\* data.get("confidence", 0.8) / item.get("confidence", 0.8)
DefaultConfidence == 80

\* confidence=1.0 of a user answer
UserConfidence == 100

None == "None"

\* a file is << >> when it does not exist, else <<contents>>
NoFile == << >>

UserNotes == "Provided during interactive discovery session"

---------------------------------------------------------------------------
(* The question catalog *)

\* DiscoveryCategory, in the definition order of the enum
DiscoveryCategory ==
    << "Business Context", "Network Design", "Security & Identity",
       "Governance", "Compliance & Regulatory", "Operations & Management",
       "Workload Planning", "Cost & Budgeting", "Integration & Connectivity",
       "Disaster Recovery & Backup" >>

\* A selection of DISCOVERY_QUESTIONS, in the definition order of the dict.
\* dr_001 is defined before wkld_001 although its category comes last in the
\* enum, as in the source.
FullCatalog ==
    << [id |-> "biz_001",  category |-> "Business Context",           priority |-> "critical"],
       [id |-> "biz_003",  category |-> "Business Context",           priority |-> "high"],
       [id |-> "net_001",  category |-> "Network Design",             priority |-> "critical"],
       [id |-> "dr_001",   category |-> "Disaster Recovery & Backup", priority |-> "critical"],
       [id |-> "wkld_001", category |-> "Workload Planning",          priority |-> "high"],
       [id |-> "wkld_003", category |-> "Workload Planning",          priority |-> "medium"],
       [id |-> "wkld_004", category |-> "Workload Planning",          priority |-> "high"] >>

\* the catalog cut down to its first n questions
Catalog(n) == SubSeq(FullCatalog, 1, n)

CatalogIds == { DISCOVERY_QUESTIONS[i].id : i \in 1..Len(DISCOVERY_QUESTIONS) }

\* DISCOVERY_QUESTIONS[qid]; defined only for catalog ids (KeyError otherwise)
Question(qid) ==
    DISCOVERY_QUESTIONS[CHOOSE i \in 1..Len(DISCOVERY_QUESTIONS) :
                            DISCOVERY_QUESTIONS[i].id = qid]

\* [x for x in s if P(x)], keeping the order of s
RECURSIVE FilterSeq(_, _)
FilterSeq(s, keep) ==
    IF s = << >> THEN << >>
    ELSE IF Head(s) \in keep THEN <<Head(s)>> \o FilterSeq(Tail(s), keep)
         ELSE FilterSeq(Tail(s), keep)

get_questions_by_category(category) ==
    SelectSeq(DISCOVERY_QUESTIONS, LAMBDA q : q.category = category)

get_questions_by_priority(priority) ==
    SelectSeq(DISCOVERY_QUESTIONS, LAMBDA q : q.priority = priority)

get_critical_questions == get_questions_by_priority("critical")

\* The order in which _analyze_with_search_index visits the questions:
\* for category in DiscoveryCategory: for question in get_questions_by_category
RECURSIVE ByCategoryOrder(_)
ByCategoryOrder(cats) ==
    IF cats = << >> THEN << >>
    ELSE get_questions_by_category(Head(cats)) \o ByCategoryOrder(Tail(cats))

SearchOrder == ByCategoryOrder(DiscoveryCategory)

---------------------------------------------------------------------------
(* Values supplied by the user, the oracle and the disk *)

\* answer texts typed by the user
UserTexts == {"X", "Y"}

\* "confidence" values of the oracle's JSON
OracleConfidences == {50, 85}

\* "answer" of the oracle's JSON
OracleTexts == {"ai"}

\* "source_document" / "document_reference" of the oracle's JSON
OracleDocuments == {"doc1"}

\* a question id of an older catalog, absent from DISCOVERY_QUESTIONS
UnknownId == "old_001"

---------------------------------------------------------------------------
(* DiscoveryAnswer and DiscoverySession *)

DiscoveryAnswer(qid, text, src, conf, ref, notes) ==
    [question_id |-> qid, answer |-> text, source |-> src, confidence |-> conf,
     document_reference |-> ref, notes |-> notes]

\* an empty dict
EmptyDict == [k \in {} |-> None]

\* variant: the assignment replaces the whole dict
DictSetAlone(d, k, v) == [x \in {k} |-> v]

\* d[k] = v
DictSet(d, k, v) == [x \in (DOMAIN d) \cup {k} |-> IF x = k THEN v ELSE d[x]]

\* del d[k]
DictDel(d, k) == [x \in (DOMAIN d) \ {k} |-> d[x]]

get_answered_count(ans) == Cardinality(DOMAIN ans)

get_total_count == Len(DISCOVERY_QUESTIONS)

\* (answered / total) * 100, as an exact rational
update_completion(ans) == << get_answered_count(ans) * 100, get_total_count >>

\* DiscoverySession(session_id=...): completion_percentage: float = 0.0
NewCompletion == << 0, 1 >>

---------------------------------------------------------------------------
(* Gap analysis *)

\* the loop of get_missing_information over DISCOVERY_QUESTIONS.items():
\* priority is None, or an InformationPriority to filter on
RECURSIVE MissingLoop(_, _, _)
MissingLoop(qs, ans, priority) ==
    IF qs = << >> THEN << >>
    ELSE LET question == Head(qs)
             rest     == MissingLoop(Tail(qs), ans, priority)
         IN  IF priority # None /\ question.priority # priority THEN rest
             ELSE IF question.id \notin DOMAIN ans THEN <<question>> \o rest
             ELSE rest

get_missing_information(sess, ans, priority) ==
    IF sess = "none" THEN << >>
    ELSE MissingLoop(DISCOVERY_QUESTIONS, ans, priority)

\* variant: the priority filter is not passed on
get_critical_gaps_unfiltered(sess, ans) == get_missing_information(sess, ans, None)

get_critical_gaps(sess, ans) == get_missing_information(sess, ans, "critical")

\* sum(1 for q in category_questions if q.id in self.session.answers)
CountAnswered(qs, ans) ==
    Cardinality({ i \in 1..Len(qs) : qs[i].id \in DOMAIN ans })

\* sum(1 for a in self.session.answers.values() if a.source == src)
CountBySource(ans, src) ==
    Cardinality({ qid \in DOMAIN ans : ans[qid].source = src })

\* the number reported as "answers_from_documents"
CountFromDocuments(ans) == CountBySource(ans, "document")

\* DiscoveryAgent.get_discovery_summary with an active session: the count
\* by priority indexes DISCOVERY_QUESTIONS[qid] for every key of
\* session.answers (KeyError for an id outside the catalog) before the
\* grouping by category is built
get_discovery_summary(ans) ==
    IF \E qid \in DOMAIN ans : qid \notin CatalogIds
    THEN [raises |-> TRUE]
    ELSE [raises |-> FALSE,
          answered |-> get_answered_count(ans),
          answers_from_documents |-> CountFromDocuments(ans),
          answers_from_user |-> CountBySource(ans, "user_input"),
          by_category |->
              [c \in { DiscoveryCategory[i] : i \in 1..Len(DiscoveryCategory) } |->
                  [answered |-> CountAnswered(get_questions_by_category(c), ans),
                   total |-> Len(get_questions_by_category(c))]]]

---------------------------------------------------------------------------
(* Export / import codec *)

\* one element of the "answers" list of export_discovery_results;
\* DISCOVERY_QUESTIONS[qid] raises KeyError for an id outside the catalog
ExportEntry(qid, a) ==
    [question_id |-> qid,
     category |-> Question(qid).category,
     priority |-> Question(qid).priority,
     answer |-> a.answer, source |-> a.source, confidence |-> a.confidence,
     document_reference |-> a.document_reference]

\* the answered questions in catalog order, as ids
AnsweredIds(ans) ==
    FilterSeq([i \in 1..Len(DISCOVERY_QUESTIONS) |-> DISCOVERY_QUESTIONS[i].id],
              DOMAIN ans)

\* TRUE iff building the results dict raises KeyError (get_discovery_summary
\* line 646 and the "answers" comprehension both index DISCOVERY_QUESTIONS[qid])
ExportRaises(ans) == ~ (DOMAIN ans \subseteq CatalogIds)

\* the results dict of export_discovery_results, when it does not raise
ExportResults(sess, ans, compl) ==
    [completion |-> compl,
     answers |-> [i \in 1..Len(AnsweredIds(ans)) |->
                     ExportEntry(AnsweredIds(ans)[i], ans[AnsweredIds(ans)[i]])],
     missing_information |->
         [i \in 1..Len(get_missing_information(sess, ans, None)) |->
             get_missing_information(sess, ans, None)[i].id]]

\* answer_data[...] raises KeyError / DiscoveryAnswer(...) fails validation
EntryRaises(e) ==
    ~ ({"question_id", "answer", "source", "confidence"} \subseteq DOMAIN e)

\* DiscoveryAnswer(question_id=answer_data['question_id'], ...) of the import
\* loops: notes is not read from the snapshot and stays None
ImportAnswer(e) ==
    DiscoveryAnswer(e.question_id, e.answer, e.source, e.confidence,
                    IF "document_reference" \in DOMAIN e
                    THEN e.document_reference ELSE None,
                    None)

\* the loop "for answer_data in results.get('answers', [])" of
\* import_discovery_results and _auto_load_previous_session, started on the
\* answers ans; ok = FALSE when an entry raised (the loop stops there)
RECURSIVE ImportLoop(_, _)
ImportLoop(entries, ans) ==
    IF entries = << >> THEN [answers |-> ans, ok |-> TRUE]
    ELSE IF EntryRaises(Head(entries)) THEN [answers |-> ans, ok |-> FALSE]
    ELSE ImportLoop(Tail(entries),
                    DictSet(ans, Head(entries).question_id, ImportAnswer(Head(entries))))

\* snapshot files left on disk by earlier runs (possibly of an older catalog)
ForeignEntry(qid, text, src, conf) ==
    [question_id |-> qid, category |-> "Business Context", priority |-> "high",
     answer |-> text, source |-> src, confidence |-> conf,
     document_reference |-> None]

ForeignSnapshots ==
    { \* answers for a subset of the catalog, stale missing list
      [completion |-> <<100, 1>>,
       answers |-> << ForeignEntry("biz_001", "X", "user_input", 100) >>,
       missing_information |-> << >>],
      \* an answer whose question is no longer in the catalog, and an
      \* answer whose "confidence" is 1.5
      [completion |-> <<100, 1>>,
       answers |-> << ForeignEntry("biz_001", "ai", "document", 150),
                      ForeignEntry(UnknownId, "X", "user_input", 100) >>,
       missing_information |-> << "biz_003" >>],
      \* an entry without "answer" after a valid one
      [completion |-> <<0, 1>>,
       answers |-> << ForeignEntry("biz_003", "X", "user_input", 100),
                      [question_id |-> "biz_001", source |-> "user_input",
                       confidence |-> 100] >>,
       missing_information |-> << >>] }

---------------------------------------------------------------------------
(* The answer extraction oracle *)

\* the parsed JSON object of _extract_answer_from_search_results with a
\* non-empty "answer"; has_confidence = FALSE: no "confidence" key
OracleData ==
    [answer : OracleTexts, has_confidence : BOOLEAN,
     confidence : OracleConfidences, source_document : OracleDocuments]

\* data.get("confidence", 0.8)
ConfidenceOf(data) ==
    IF data.has_confidence THEN data.confidence ELSE DefaultConfidence

\* variant: the candidate carries the id of the first question of the catalog
SearchAnswerOfFirstQuestion(qid, data) ==
    DiscoveryAnswer(DISCOVERY_QUESTIONS[1].id, data.answer, "search_index",
                    ConfidenceOf(data), data.source_document, None)

\* the DiscoveryAnswer built by _extract_answer_from_search_results
SearchAnswer(qid, data) ==
    DiscoveryAnswer(qid, data.answer, "search_index", ConfidenceOf(data),
                    data.source_document, None)

\* variant: the 'already answered' check is missing
AlreadyAnsweredNever(ans, qid) == FALSE

\* "if question.id in self.session.answers: continue"
AlreadyAnswered(ans, qid) == qid \in DOMAIN ans

\* variant: a candidate at the threshold is not accepted
AutoAcceptStrict(conf) == conf > confidence_threshold

\* "if answer.confidence >= self.confidence_threshold"
AutoAccept(conf) == conf >= confidence_threshold

---------------------------------------------------------------------------
(* The blob-storage path *)

\* positional parameters of DocumentProcessor.process after self:
\* content, document_type, artifact_name (none has a default)
ProcessParameters == 3

\* self.document_processor.process(artifact_name, content) passes nargs
\* arguments; the call raises TypeError unless that is the parameter count
ProcessCallRaises(nargs) == nargs # ProcessParameters

\* the fields of ProcessedContent (src/src/models.py)
ProcessedContentFields ==
    {"artifact_name", "document_type", "extracted_text", "structured_data",
     "sections", "keywords", "confidence_score"}

\* content.text_content in the prompt of _extract_answers_from_document
\* raises AttributeError when the object has no such attribute
PromptRaises(fields) == "text_content" \notin fields

\* the "question_id" values of the oracle's JSON array: the ids of the
\* questions of the prompt, or any other string
OracleQuestionIds == { FullCatalog[i].id : i \in 1..Len(FullCatalog) } \cup {UnknownId}

\* one element of the JSON array of _extract_answers_from_document
DocumentItems ==
    [question_id : OracleQuestionIds, answer : OracleTexts,
     has_confidence : BOOLEAN, confidence : OracleConfidences,
     document_reference : OracleDocuments]

\* the loop of _extract_answers_from_document over the parsed array:
\* every item is stored in session.answers, whatever is already there
RECURSIVE ExtractLoop(_, _)
ExtractLoop(items, ans) ==
    IF items = << >> THEN ans
    ELSE ExtractLoop(Tail(items),
                     DictSet(ans, Head(items).question_id,
                             DiscoveryAnswer(Head(items).question_id,
                                             Head(items).answer, "document",
                                             ConfidenceOf(Head(items)),
                                             Head(items).document_reference,
                                             None)))

\* one iteration of the loop of _analyze_from_blob_storage over the
\* artifacts: an exception of process or of the extraction is caught by
\* "except Exception: continue"
BlobArtifact(ans, items) ==
    IF ProcessCallRaises(2) THEN ans
    ELSE IF PromptRaises(ProcessedContentFields) THEN ans
    ELSE ExtractLoop(items, ans)

---------------------------------------------------------------------------
(* Initial state: a constructed DiscoveryAgent, before any session *)

\* op: the step taken; q: the question it was about; text, conf: the answer
\* text and the confidence it carried (None / 0 when there is none)
Step(op, q, text, conf) == [op |-> op, q |-> q, text |-> text, conf |-> conf]

Init ==
    /\ DISCOVERY_QUESTIONS = Catalog(NumQuestions)
    /\ config = {}
    /\ search_available = TRUE
    /\ awaiting = None
    /\ session = "none"
    /\ answers = EmptyDict
    /\ completion = NewCompletion
    /\ answer_cache = EmptyDict
    /\ use_search_index = TRUE
    /\ results_file \in {NoFile} \cup { <<f>> : f \in ForeignSnapshots }
    /\ checkpoint_file = NoFile
    /\ batch = 0
    /\ last = Step("init", None, None, 0)
    /\ ops = 0

\* no analysis is running: the caller is free to call the next operation
Idle == batch = 0

\* the caller calls one more operation
Call == Idle /\ ops < MaxOps /\ ops' = ops + 1

Active == session = "active"

---------------------------------------------------------------------------
(* Session lifecycle *)

\* variant: the entries of questions that the snapshot lists as missing are
\* left out
SnapshotAnswersNotMissing(results) ==
    IF "answers" \notin DOMAIN results THEN << >>
    ELSE IF "missing_information" \notin DOMAIN results THEN results.answers
    ELSE SelectSeq(results.answers,
                   LAMBDA e : \A i \in 1..Len(results.missing_information) :
                                 results.missing_information[i] # e.question_id)

\* results.get('answers', []): the only key of the snapshot that the load
\* loops read
SnapshotAnswers(results) ==
    IF "answers" \in DOMAIN results THEN results.answers ELSE << >>

\* variant: the completion value is taken over from the snapshot
LoadedWithSnapshotCompletion(file) ==
    LET r == ImportLoop(SnapshotAnswers(file[1]), EmptyDict)
    IN  [answers |-> r.answers,
         completion |-> IF r.ok THEN file[1].completion ELSE NewCompletion,
         ok |-> r.ok]

\* the session state after the answers of a snapshot file were loaded into
\* a new session: update_completion runs only when no entry raised
Loaded(file) ==
    LET r == ImportLoop(SnapshotAnswers(file[1]), EmptyDict)
    IN  [answers |-> r.answers,
         completion |-> IF r.ok THEN update_completion(r.answers) ELSE NewCompletion,
         ok |-> r.ok]

\* what _auto_load_previous_session logs (None: it is not called)
AutoLoadOutcome(auto_resume, readOK) ==
    IF ~auto_resume THEN None
    ELSE IF results_file = NoFile THEN "no_previous_session"
    ELSE IF ~readOK \/ ~Loaded(results_file).ok THEN "auto_load_failed"
    ELSE "auto_loaded"

\* start_discovery_workshop(session_id, auto_resume); readOK: open/json.load
\* of the newest results file succeeds; indexOK: _auto_index_artifacts does
\* not fail as a whole
start_discovery_workshop(auto_resume, readOK, indexOK) ==
    /\ Call
    /\ session' = "active"
    /\ IF auto_resume /\ results_file # NoFile /\ readOK
       THEN /\ answers' = Loaded(results_file).answers
            /\ completion' = Loaded(results_file).completion
       ELSE /\ answers' = EmptyDict
            /\ completion' = NewCompletion
    /\ use_search_index' = (use_search_index /\ indexOK)
    /\ last' = Step("start_discovery_workshop", None,
                    AutoLoadOutcome(auto_resume, readOK), 0)
    /\ UNCHANGED <<answer_cache, results_file, checkpoint_file, batch,
                   DISCOVERY_QUESTIONS,
                   config, search_available, awaiting>>

\* import_discovery_results(input_path)
import_discovery_results(path, readOK) ==
    LET file == IF path = "results" THEN results_file
                ELSE IF path = "checkpoint" THEN checkpoint_file
                ELSE NoFile
    IN  /\ Call
        /\ IF file # NoFile /\ readOK
           THEN /\ session' = "active"
                /\ answers' = Loaded(file).answers
                /\ completion' = Loaded(file).completion
                /\ last' = Step(IF Loaded(file).ok THEN "import_discovery_results"
                                ELSE "import_failed", None, path, 0)
           ELSE /\ UNCHANGED <<session, answers, completion>>
                /\ last' = Step("import_unreadable", None, path, 0)
        /\ UNCHANGED <<answer_cache, use_search_index, results_file,
                       checkpoint_file, batch, DISCOVERY_QUESTIONS,
                   config, search_available, awaiting>>

\* export_discovery_results(output_path) to a discovery_results_*.json file
\* (DiscoveryWorkshopCLI.export_results); writeOK: open/json.dump succeed
export_discovery_results(writeOK) ==
    /\ Call /\ Active
    /\ results_file' = IF ~ExportRaises(answers) /\ writeOK
                       THEN << ExportResults(session, answers, completion) >>
                       ELSE results_file
    /\ last' = Step(IF ~ExportRaises(answers) /\ writeOK THEN "export_discovery_results"
                    ELSE "export_failed", None, None, 0)
    /\ UNCHANGED <<session, answers, completion, answer_cache, use_search_index,
                   checkpoint_file, batch, DISCOVERY_QUESTIONS,
                   config, search_available, awaiting>>

---------------------------------------------------------------------------
(* Answer validation (src/src/validators.py) *)

\* Answer texts, described by what the validators look at.
\* The texts that ipaddress.ip_network(text, strict=False) parses, with
\* network.is_private and network.prefixlen; any other text raises ValueError
IpNetworkTable ==
    { [text |-> "10.0.0.0/16",   is_private |-> TRUE,  prefixlen |-> 16],
      [text |-> "8.8.8.8/30",    is_private |-> FALSE, prefixlen |-> 30],
      [text |-> "10.0.0.0/8",    is_private |-> TRUE,  prefixlen |-> 8],
      [text |-> "10.0.0.0/15",   is_private |-> TRUE,  prefixlen |-> 15],
      [text |-> "10.0.0.0/24",   is_private |-> TRUE,  prefixlen |-> 24],
      [text |-> "10.0.0.0/25",   is_private |-> TRUE,  prefixlen |-> 25],
      [text |-> "10.0.0.0/29",   is_private |-> TRUE,  prefixlen |-> 29],
      [text |-> "10.0.0.0/30",   is_private |-> TRUE,  prefixlen |-> 30],
      [text |-> "10.0.0.1",      is_private |-> TRUE,  prefixlen |-> 32],
      [text |-> "8.8.8.0/24",    is_private |-> FALSE, prefixlen |-> 24],
      [text |-> "172.32.0.0/16", is_private |-> FALSE, prefixlen |-> 16],
      [text |-> "8.0.0.0/8",     is_private |-> FALSE, prefixlen |-> 8],
      [text |-> "8.8.8.0/25",    is_private |-> FALSE, prefixlen |-> 25] }

\* the texts that parse
IpNetworkTexts == { n.text : n \in IpNetworkTable }

IpNetworkRaises(text) == text \notin IpNetworkTexts

ip_network(text) == CHOOSE n \in IpNetworkTable : n.text = text

\* the keywords of the validators that occur in text.lower()
Keywords(text) ==
    IF text = "RPO 4h, RTO 8h, geo-redundant" THEN {"rpo", "rto", "geo"}
    ELSE {}

\* "word in answer_lower"
Contains(text, word) == word \in Keywords(text)

\* re.search(r'\$[\d,]+|\d+\s*(k|thousand|m|million)', answer_lower)
MatchesAmount(text) == text \in {"$50k"}

\* what a validator call does: it raises, or returns its findings (the
\* severities of the ValidationResult list, in order)
Findings(list) == [raises |-> FALSE, findings |-> list]

When(cond, severity) == IF cond THEN <<severity>> ELSE << >>

\* variant: the ValueError of ip_network is not caught
InvalidRangeUncaught == [raises |-> TRUE, findings |-> << >>]

\* "except ValueError" of validate_ip_range
InvalidRange == Findings(<<"error">>)

\* variant: a /29 subnet is reported as very small, too
VerySmallFrom29(prefixlen) == prefixlen >= 29

\* "if network.prefixlen > 29"
VerySmall(prefixlen) == prefixlen > 29

validate_ip_range(ip_range) ==
    IF IpNetworkRaises(ip_range) THEN InvalidRange
    ELSE LET network == ip_network(ip_range)
         IN  Findings(
                 When(~network.is_private, "error")
              \o (IF VerySmall(network.prefixlen) THEN <<"warning">>
                  ELSE IF network.prefixlen < 16 THEN <<"warning">>
                  ELSE << >>)
              \o When(16 <= network.prefixlen /\ network.prefixlen <= 24, "success"))

validate_environment_separation(answer) ==
    Findings(
        IF Contains(answer, "subscription") /\ Contains(answer, "separate")
        THEN <<"success">>
        ELSE IF Contains(answer, "resource group") THEN <<"info">>
        ELSE IF Contains(answer, "single") \/ Contains(answer, "same")
        THEN <<"warning">>
        ELSE << >>)

validate_backup_strategy(answer) ==
    LET has_rpo == Contains(answer, "rpo") \/ Contains(answer, "recovery point")
        has_rto == Contains(answer, "rto") \/ Contains(answer, "recovery time")
    IN  Findings(
            (IF has_rpo /\ has_rto THEN <<"success">> ELSE <<"warning">>)
         \o (IF Contains(answer, "geo") \/ Contains(answer, "region")
             THEN <<"success">> ELSE <<"info">>))

validate_connectivity_method(answer) ==
    LET er == Contains(answer, "expressroute") \/ Contains(answer, "express route")
    IN  Findings(
            (IF er THEN <<"success">>
             ELSE IF Contains(answer, "vpn") THEN <<"info">> ELSE << >>)
         \o When(er /\ Contains(answer, "vpn"), "success"))

validate_budget(answer) ==
    Findings(
        (IF MatchesAmount(answer) THEN <<"success">> ELSE <<"warning">>)
     \o When(Contains(answer, "monitor") \/ Contains(answer, "alert")
                \/ Contains(answer, "budget alert"), "success"))

validate_security_requirements(answer) ==
    Findings(
        When(\E key \in {"pci", "hipaa", "soc", "iso", "gdpr", "fedramp"} :
                 Contains(answer, key), "success")
     \o (IF Contains(answer, "mfa") \/ Contains(answer, "multi-factor")
         THEN <<"success">> ELSE <<"warning">>))

\* the keys of QuestionValidator.VALIDATORS
KeyedIds == {"net_001", "gov_003", "dr_001", "net_003", "cost_001", "sec_001"}

\* variant: a question without a validator gets the security validator
VALIDATORS_with_default(question_id) ==
    IF question_id = "net_001" THEN "validate_ip_range"
    ELSE IF question_id = "gov_003" THEN "validate_environment_separation"
    ELSE IF question_id = "dr_001" THEN "validate_backup_strategy"
    ELSE IF question_id = "net_003" THEN "validate_connectivity_method"
    ELSE IF question_id = "cost_001" THEN "validate_budget"
    ELSE "validate_security_requirements"

\* QuestionValidator.VALIDATORS.get(question_id)
VALIDATORS(question_id) ==
    IF question_id = "net_001" THEN "validate_ip_range"
    ELSE IF question_id = "gov_003" THEN "validate_environment_separation"
    ELSE IF question_id = "dr_001" THEN "validate_backup_strategy"
    ELSE IF question_id = "net_003" THEN "validate_connectivity_method"
    ELSE IF question_id = "cost_001" THEN "validate_budget"
    ELSE IF question_id = "sec_001" THEN "validate_security_requirements"
    ELSE None

\* QuestionValidator.validate_answer(question_id, answer)
validate_answer(question_id, answer) ==
    LET validator == VALIDATORS(question_id)
    IN  IF validator = None THEN Findings(<< >>)
        ELSE IF validator = "validate_ip_range" THEN validate_ip_range(answer)
        ELSE IF validator = "validate_environment_separation"
        THEN validate_environment_separation(answer)
        ELSE IF validator = "validate_backup_strategy"
        THEN validate_backup_strategy(answer)
        ELSE IF validator = "validate_connectivity_method"
        THEN validate_connectivity_method(answer)
        ELSE IF validator = "validate_budget" THEN validate_budget(answer)
        ELSE validate_security_requirements(answer)

---------------------------------------------------------------------------
(* Recording answers *)

\* variant: the user's answer gets the default confidence of a candidate
UserAnswerDefaultConfidence(qid, text) ==
    DiscoveryAnswer(qid, text, "user_input", DefaultConfidence, None, UserNotes)

\* the Answer created by ask_user_question
UserAnswer(qid, text) ==
    DiscoveryAnswer(qid, text, "user_input", UserConfidence, None, UserNotes)

\* "if len(self.session.answers) % self.auto_save_interval == 0"
CheckpointDue(ans) == get_answered_count(ans) % auto_save_interval = 0

\* variant: the failure of the export is not caught
_auto_save_checkpoint_uncaught(ans, writeOK) ==
    IF ~ExportRaises(ans) /\ writeOK THEN "saved" ELSE "raised"

\* _auto_save_checkpoint: the export writes the checkpoint file ("saved"),
\* or it fails and "except Exception" logs the failure ("logged")
_auto_save_checkpoint(ans, writeOK) ==
    IF ~ExportRaises(ans) /\ writeOK THEN "saved" ELSE "logged"

\* the body of DiscoveryAgent.ask_user_question: the validation runs before
\* the write (an exception of it would leave the session as it is), the
\* checkpoint after it
RecordUserAnswer(qid, text, writeOK) ==
    IF validate_answer(qid, text).raises
    THEN /\ last' = Step("ask_user_question_raised", qid, text, 0)
         /\ UNCHANGED <<answers, completion, checkpoint_file>>
    ELSE /\ answers' = DictSet(answers, qid, UserAnswer(qid, text))
         /\ completion' = update_completion(answers')
         /\ \E saved \in { IF CheckpointDue(answers')
                            THEN _auto_save_checkpoint(answers', writeOK)
                            ELSE "not_due" } :
               /\ checkpoint_file' =
                     IF saved = "saved"
                     THEN << ExportResults(session, answers', completion') >>
                     ELSE checkpoint_file
               /\ last' = Step(IF saved = "raised" THEN "ask_user_question_raised"
                               ELSE "ask_user_question",
                               qid, text, UserConfidence)

\* DiscoveryAgent.ask_user_question(question, user_answer)
ask_user_question(qid, text, writeOK) ==
    /\ Call /\ Active
    /\ RecordUserAnswer(qid, text, writeOK)
    /\ UNCHANGED <<session, answer_cache, use_search_index, results_file, batch,
                   DISCOVERY_QUESTIONS,
                   config, search_available, awaiting>>

\* variant: an accepted candidate is stored as an answer of the user
AcceptedAnswerAsUserInput(cached) ==
    [cached EXCEPT !.source = "user_input", !.confidence = UserConfidence]

\* "self.agent.session.answers[question.id] = cached"
AcceptedAnswer(cached) == cached

\* DiscoveryWorkshopCLI._ask_single_question(question, ...); its callers pass
\* questions that are missing from session.answers.  accept: the reply to
\* "Accept this answer?"; reply: the reply to "Your answer", a text or "skip"
ask_single_question(qid, accept, reply, writeOK) ==
    /\ Call /\ Active
    /\ qid \notin DOMAIN answers
    /\ IF qid \in DOMAIN answer_cache /\ accept
       THEN /\ answers' = DictSet(answers, qid, AcceptedAnswer(answer_cache[qid]))
            /\ answer_cache' = DictDel(answer_cache, qid)
            /\ last' = Step("accept_cached", qid, answer_cache[qid].answer,
                             answer_cache[qid].confidence)
            /\ UNCHANGED <<completion, checkpoint_file>>
       ELSE IF reply # "skip"
       THEN /\ RecordUserAnswer(qid, reply, writeOK)
            /\ UNCHANGED answer_cache
       ELSE /\ last' = Step("skip", qid, None, 0)
            /\ UNCHANGED <<answers, completion, answer_cache, checkpoint_file>>
    /\ UNCHANGED <<session, use_search_index, results_file, batch,
                   DISCOVERY_QUESTIONS,
                   config, search_available, awaiting>>

\* one iteration of the loop of review_and_edit_answers with choice 'e'
review_edit(qid, new_answer, writeOK) ==
    /\ Call /\ Active
    /\ qid \in DOMAIN answers /\ qid \in CatalogIds
    /\ new_answer # answers[qid].answer
    /\ RecordUserAnswer(qid, new_answer, writeOK)
    /\ UNCHANGED <<session, answer_cache, use_search_index, results_file, batch,
                   DISCOVERY_QUESTIONS,
                   config, search_available, awaiting>>

\* one iteration of the loop of review_and_edit_answers with choice 'd',
\* confirmed
review_delete(qid) ==
    /\ Call /\ Active
    /\ qid \in DOMAIN answers /\ qid \in CatalogIds
    /\ answers' = DictDel(answers, qid)
    /\ last' = Step("review_delete", qid, None, 0)
    /\ UNCHANGED <<session, completion, answer_cache, use_search_index,
                   results_file, checkpoint_file, batch, DISCOVERY_QUESTIONS,
                   config, search_available, awaiting>>

---------------------------------------------------------------------------
(* Document analysis *)

\* analyze_documents with use_search_index set: enters
\* _analyze_with_search_index
analyze_documents_search ==
    /\ Call /\ Active
    /\ use_search_index
    /\ batch' = 1
    /\ last' = Step("analyze_documents", None, None, 0)
    /\ UNCHANGED <<session, answers, completion, answer_cache, use_search_index,
                   results_file, checkpoint_file, DISCOVERY_QUESTIONS,
                   config, search_available, awaiting>>

\* the ways in which the iteration for one question can fail:
\*   search_error   search_client.search raises         (except, line 362)
\*   oracle_error   get_chat_message_content raises     (except, line 476)
\*   parse_error    the reply is not a JSON object      (except, line 476)
FailureOutcomes == {"search_error", "oracle_error", "parse_error"}

\* the iterations that find nothing: no search result (line 341), or a
\* JSON object without a non-empty "answer" (line 474)
EmptyOutcomes == {"no_results", "no_answer"}

\* variant: an exception ends the loop over the questions
AfterFailureStop(i) == Len(SearchOrder) + 1

\* the loop index after the iteration i has failed: the exception is
\* caught inside the iteration and the loop goes on ("continue")
AfterFailure(i) == i + 1

\* variant: a pending candidate is kept when a later one arrives
CacheCandidateKeepFirst(cache, qid, answer) ==
    IF qid \in DOMAIN cache THEN cache ELSE DictSet(cache, qid, answer)

\* "self.answer_cache[question.id] = answer"
CacheCandidate(cache, qid, answer) == DictSet(cache, qid, answer)

\* the iteration for qid after the 'already answered' check: the search
\* (every query raises while the search collaborator is down), the oracle
\* call and the write of the candidate
SearchIteration(qid) ==
    \/ \E outcome \in FailureOutcomes :
          /\ search_available \/ outcome = "search_error"
          /\ last' = Step(outcome, qid, None, 0)
          /\ batch' = AfterFailure(batch)
          /\ UNCHANGED <<answers, answer_cache>>
    \/ \E outcome \in EmptyOutcomes :
          /\ search_available
          /\ last' = Step(outcome, qid, None, 0)
          /\ batch' = batch + 1
          /\ UNCHANGED <<answers, answer_cache>>
    \/ \E data \in OracleData :
          /\ search_available
          /\ batch' = batch + 1
          /\ last' = Step("search_candidate", qid, data.answer,
                           SearchAnswer(qid, data).confidence)
          /\ IF AutoAccept(SearchAnswer(qid, data).confidence)
             THEN /\ answers' = DictSet(answers, qid, SearchAnswer(qid, data))
                  /\ UNCHANGED answer_cache
             ELSE /\ answer_cache' = CacheCandidate(answer_cache, qid, SearchAnswer(qid, data))
                  /\ UNCHANGED answers

\* one iteration of the question loop of _analyze_with_search_index, run
\* without another task in between
search_step ==
    /\ ~Idle
    /\ awaiting = None
    /\ batch \in 1..Len(SearchOrder)
    /\ \E qid \in { SearchOrder[batch].id } :
           IF AlreadyAnswered(answers, qid)
           THEN /\ last' = Step("search_skip", qid, None, 0)
                /\ batch' = batch + 1
                /\ UNCHANGED <<answers, answer_cache>>
           ELSE SearchIteration(qid)
    /\ UNCHANGED <<session, completion, use_search_index, results_file,
                   checkpoint_file, ops, DISCOVERY_QUESTIONS,
                   config, search_available, awaiting>>

\* the end of _analyze_with_search_index: update_completion and return
search_finish ==
    /\ ~Idle
    /\ batch = Len(SearchOrder) + 1
    /\ batch' = 0
    /\ completion' = update_completion(answers)
    /\ last' = Step("analyze_done", None, None, 0)
    /\ UNCHANGED <<session, answers, answer_cache, use_search_index,
                   results_file, checkpoint_file, ops, DISCOVERY_QUESTIONS,
                   config, search_available, awaiting>>

\* analyze_documents with use_search_index cleared: _analyze_from_blob_storage.
\* listing: list_artifacts raises, returns nothing, or returns artifacts
analyze_from_blob_storage(listing, items) ==
    /\ Call /\ Active
    /\ ~use_search_index
    /\ IF listing = "artifacts"
       THEN /\ answers' = BlobArtifact(answers, items)
            /\ completion' = update_completion(answers')
       ELSE UNCHANGED <<answers, completion>>
    /\ last' = Step("blob_" \o listing, None, None, 0)
    /\ UNCHANGED <<session, answer_cache, use_search_index, results_file,
                   checkpoint_file, batch, DISCOVERY_QUESTIONS,
                   config, search_available, awaiting>>

---------------------------------------------------------------------------

Next ==
    \/ \E auto_resume, readOK, indexOK \in BOOLEAN :
          start_discovery_workshop(auto_resume, readOK, indexOK)
    \/ \E path \in {"results", "checkpoint", "nopath"}, readOK \in BOOLEAN :
          import_discovery_results(path, readOK)
    \/ \E writeOK \in BOOLEAN : export_discovery_results(writeOK)
    \/ \E qid \in CatalogIds, text \in UserTexts, writeOK \in BOOLEAN :
          ask_user_question(qid, text, writeOK)
    \/ \E qid \in CatalogIds, accept \in BOOLEAN, reply \in UserTexts \cup {"skip"},
          writeOK \in BOOLEAN :
          ask_single_question(qid, accept, reply, writeOK)
    \/ \E qid \in CatalogIds, text \in UserTexts, writeOK \in BOOLEAN :
          review_edit(qid, text, writeOK)
    \/ \E qid \in CatalogIds : review_delete(qid)
    \/ analyze_documents_search
    \/ search_step
    \/ search_finish
    \/ \E listing \in {"error", "empty", "artifacts"},
          items \in {<< >>} \cup { <<i>> : i \in DocumentItems } :
          analyze_from_blob_storage(listing, items)

Spec == Init /\ [][Next]_vars

---------------------------------------------------------------------------
(* The interview: a session in which the user has answered all but one of
   the questions that make the first checkpoint fall due, over a catalog
   that is larger than auto_save_interval.  The process may end and a new
   agent be constructed. *)

\* answer texts typed by the user in the interview
InterviewTexts == {"X", "10.0.0.0/16"}

\* number of candidates pending in answer_cache when the interview starts
PendingCandidates == 2

\* a candidate below the threshold, left in answer_cache by an earlier
\* analyze_documents
PendingCandidate(qid) ==
    SearchAnswer(qid, [answer |-> "ai", has_confidence |-> TRUE,
                       confidence |-> 50, source_document |-> "doc1"])

InterviewInit ==
    /\ DISCOVERY_QUESTIONS = Catalog(InterviewQuestions)
    /\ config = {}
    /\ search_available = TRUE
    /\ awaiting = None
    /\ session = "active"
    /\ answers = [qid \in { DISCOVERY_QUESTIONS[i].id : i \in 1..(auto_save_interval - 1) }
                     |-> UserAnswer(qid, "X")]
    /\ completion = update_completion(answers)
    /\ answer_cache =
          [qid \in { DISCOVERY_QUESTIONS[i].id :
                        i \in auto_save_interval..(auto_save_interval + PendingCandidates - 1) }
              |-> PendingCandidate(qid)]
    /\ use_search_index = TRUE
    /\ results_file = NoFile
    /\ checkpoint_file = NoFile
    /\ batch = 0
    /\ last = Step("init", None, None, 0)
    /\ ops = 0

\* the process ends and the program is started again: a new DiscoveryAgent
\* is constructed; the files stay on disk
restart ==
    /\ Call
    /\ session' = "none"
    /\ answers' = EmptyDict
    /\ completion' = NewCompletion
    /\ answer_cache' = EmptyDict
    /\ use_search_index' = TRUE
    /\ last' = Step("restart", None, None, 0)
    /\ UNCHANGED <<results_file, checkpoint_file, batch, DISCOVERY_QUESTIONS,
                   config, search_available, awaiting>>

InterviewNext ==
    \/ \E qid \in CatalogIds, text \in InterviewTexts, writeOK \in BOOLEAN :
          ask_user_question(qid, text, writeOK)
    \/ \E qid \in CatalogIds, accept \in BOOLEAN,
          reply \in InterviewTexts \cup {"skip"}, writeOK \in BOOLEAN :
          ask_single_question(qid, accept, reply, writeOK)
    \/ \E qid \in CatalogIds, text \in InterviewTexts, writeOK \in BOOLEAN :
          review_edit(qid, text, writeOK)
    \/ \E qid \in CatalogIds : review_delete(qid)
    \/ \E writeOK \in BOOLEAN : export_discovery_results(writeOK)
    \/ restart
    \/ \E auto_resume, readOK \in BOOLEAN :
          start_discovery_workshop(auto_resume, readOK, TRUE)
    \/ \E path \in {"results", "checkpoint"}, readOK \in BOOLEAN :
          import_discovery_results(path, readOK)

InterviewSpec == InterviewInit /\ [][InterviewNext]_vars

---------------------------------------------------------------------------
(* The validated questions: in a new session the user answers the questions
   that have a validator, with texts that are or are not IP ranges. *)

\* answers to the question about the IP address range: the texts that
\* ip_network parses, and texts on which it raises ValueError
IpRangeTexts == IpNetworkTexts \cup {"X", "", "10.0.0.0/33"}

ValidationInit ==
    /\ DISCOVERY_QUESTIONS = Catalog(InterviewQuestions)
    /\ config = {}
    /\ search_available = TRUE
    /\ awaiting = None
    /\ session = "active"
    /\ answers = EmptyDict
    /\ completion = NewCompletion
    /\ answer_cache = EmptyDict
    /\ use_search_index = TRUE
    /\ results_file = NoFile
    /\ checkpoint_file = NoFile
    /\ batch = 0
    /\ last = Step("init", None, None, 0)
    /\ ops = 0

ValidationNext ==
    \E qid \in CatalogIds \cap KeyedIds, text \in IpRangeTexts :
        ask_user_question(qid, text, TRUE)

ValidationSpec == ValidationInit /\ [][ValidationNext]_vars

---------------------------------------------------------------------------
(* Queries: the caller reads the session of the interview between answers
   and exports. *)

QueryOps ==
    {"get_missing_information", "get_critical_gaps", "get_discovery_summary",
     "get_cached_answers_for_review"}

\* the size of what a query returns: the number of questions listed, of
\* candidates handed out, or the "answered" of the summary (0 when the
\* summary is {} or the call raises KeyError)
QueryResult(op) ==
    IF op = "get_missing_information"
    THEN Len(get_missing_information(session, answers, None))
    ELSE IF op = "get_critical_gaps"
    THEN Len(get_critical_gaps(session, answers))
    ELSE IF op = "get_cached_answers_for_review"
    THEN Cardinality(DOMAIN answer_cache)
    ELSE IF ~Active \/ get_discovery_summary(answers).raises THEN 0
    ELSE get_discovery_summary(answers).answered

\* variant: the candidates are handed out and the cache is emptied
CacheAfterReviewCleared(cache) == EmptyDict

\* "return self.answer_cache.copy()": the caller gets a copy, the cache of
\* the agent stays as it is
CacheAfterReview(cache) == cache

\* one of the query methods of DiscoveryAgent
query(op) ==
    /\ Call
    /\ last' = Step(op, None, None, QueryResult(op))
    /\ answer_cache' = IF op = "get_cached_answers_for_review"
                        THEN CacheAfterReview(answer_cache) ELSE answer_cache
    /\ UNCHANGED <<session, answers, completion, use_search_index, results_file,
                   checkpoint_file, batch, DISCOVERY_QUESTIONS,
                   config, search_available, awaiting>>

QueryNext ==
    \/ \E op \in QueryOps : query(op)
    \/ \E qid \in CatalogIds, text \in InterviewTexts, writeOK \in BOOLEAN :
          ask_user_question(qid, text, writeOK)
    \/ \E writeOK \in BOOLEAN : export_discovery_results(writeOK)

QuerySpec == InterviewInit /\ [][QueryNext]_vars

---------------------------------------------------------------------------
(* Repeated and concurrent analysis: analyze_documents is called on the
   session of the interview, in which candidates are pending, and a second
   task of the event loop records user answers while an iteration of the
   batch awaits the search and the oracle. *)

\* the iteration for the next question passes the 'already answered' check
\* and reaches its await (the oracle call of
\* _extract_answer_from_search_results); the event loop may run another task
search_await ==
    /\ ~Idle
    /\ awaiting = None
    /\ batch \in 1..Len(SearchOrder)
    /\ ~AlreadyAnswered(answers, SearchOrder[batch].id)
    /\ awaiting' = SearchOrder[batch].id
    /\ last' = Step("search_await", awaiting', None, 0)
    /\ UNCHANGED <<session, answers, completion, answer_cache, use_search_index,
                   results_file, checkpoint_file, batch, ops, DISCOVERY_QUESTIONS,
                   config, search_available>>

\* the awaited call returns and the iteration goes on from where it was:
\* the candidate is written without a second look at session.answers
search_resume ==
    /\ awaiting # None
    /\ SearchIteration(awaiting)
    /\ awaiting' = None
    /\ UNCHANGED <<session, completion, use_search_index, results_file,
                   checkpoint_file, ops, DISCOVERY_QUESTIONS,
                   config, search_available>>

\* DiscoveryAgent.ask_user_question run by another task while an iteration
\* of the batch is at its await
answer_while_awaiting(qid, text, writeOK) ==
    /\ awaiting # None
    /\ ops < MaxOps /\ ops' = ops + 1
    /\ RecordUserAnswer(qid, text, writeOK)
    /\ UNCHANGED <<session, answer_cache, use_search_index, results_file, batch,
                   DISCOVERY_QUESTIONS, config, search_available, awaiting>>

AnalysisNext ==
    \/ analyze_documents_search
    \/ search_step
    \/ search_await
    \/ search_resume
    \/ \E qid \in CatalogIds, text \in InterviewTexts, writeOK \in BOOLEAN :
          answer_while_awaiting(qid, text, writeOK)
    \/ search_finish

AnalysisSpec == InterviewInit /\ [][AnalysisNext]_vars

---------------------------------------------------------------------------
(* One run of the workshop: main() constructs DiscoveryWorkshopCLI and
   awaits run_workshop, which is sequential: its position follows from the
   step it has just taken. *)

\* the collaborators' clients that DiscoveryAgent.__init__ constructs, in
\* the order of construction, with the required settings each is given
Clients == << "StorageClient", "SearchIndexClient", "AzureChatCompletion" >>

ClientSettings(client) ==
    IF client = "StorageClient"
    THEN {"AZURE_STORAGE_CONNECTION_STRING", "AZURE_STORAGE_CONTAINER_NAME"}
    ELSE IF client = "SearchIndexClient"
    THEN {"AZURE_SEARCH_ENDPOINT", "AZURE_SEARCH_API_KEY", "AZURE_SEARCH_INDEX_NAME"}
    ELSE {"AZURE_OPENAI_ENDPOINT", "AZURE_OPENAI_API_KEY",
          "AZURE_OPENAI_DEPLOYMENT_NAME"}

\* required_fields of Config.validate
RequiredSettings == UNION { ClientSettings(Clients[i]) : i \in 1..Len(Clients) }

\* Config.validate: raises ValueError naming every missing setting
validate(missing) == [raises |-> missing # {}, names |-> missing]

\* the configurations of the runs: complete, one setting missing, settings
\* of two clients missing
MissingSettings ==
    { {}, {"AZURE_SEARCH_INDEX_NAME"},
      {"AZURE_STORAGE_CONTAINER_NAME", "AZURE_SEARCH_INDEX_NAME"} }

\* the steps after which run_workshop (or main) has returned
RunEndedOps ==
    {"construction_failed", "cancelled", "blob_error", "analyze_interrupted",
     "workshop_error"}

\* where the run is
RunPosition ==
    IF last.op = "init" THEN "construct"
    ELSE IF last.op \in RunEndedOps THEN "ended"
    ELSE IF last.op = "constructed" THEN "confirm"
    ELSE IF ~Idle THEN "analyzing"
    ELSE IF last.op = "start_discovery_workshop"
    THEN IF get_answered_count(answers) = 0 THEN "analyze" ELSE "progress"
    ELSE IF last.op \in {"analyze_done", "blob_empty", "blob_artifacts"}
    THEN "progress"
    ELSE "questions"

\* DiscoveryWorkshopCLI.__init__: Config() reads the environment without
\* checking it (validate is not called); DiscoveryAgent(config) constructs
\* the clients.  What a client library does with a setting that is None is
\* not in this source: any client that was given a missing setting may
\* reject it (rejecting), or all accept (None)
construct_workshop(rejecting) ==
    /\ RunPosition = "construct"
    /\ last' = IF rejecting = None THEN Step("constructed", None, None, 0)
               ELSE Step("construction_failed", None, rejecting, 0)
    /\ UNCHANGED <<session, answers, completion, answer_cache, use_search_index,
                   results_file, checkpoint_file, batch, ops, DISCOVERY_QUESTIONS,
                   config, search_available, awaiting>>

\* "Proceed with this configuration?" answered no
run_cancelled ==
    /\ RunPosition = "confirm"
    /\ last' = Step("cancelled", None, None, 0)
    /\ UNCHANGED <<session, answers, completion, answer_cache, use_search_index,
                   results_file, checkpoint_file, batch, ops, DISCOVERY_QUESTIONS,
                   config, search_available, awaiting>>

\* variant: an interruption undoes the answers that the batch has accepted
InterruptedRolledBack(ans) ==
    [qid \in { k \in DOMAIN ans : ans[k].source # "search_index" } |-> ans[qid]]

\* session.answers after KeyboardInterrupt or a cancellation was raised in
\* the loop of _analyze_with_search_index: "except Exception" does not catch
\* it and no handler on its way out touches the session
Interrupted(ans) == ans

\* the batch is interrupted; run_workshop catches KeyboardInterrupt and
\* returns ("Workshop interrupted by user")
analysis_interrupted ==
    /\ ~Idle
    /\ batch' = 0
    /\ awaiting' = None
    /\ answers' = Interrupted(answers)
    /\ last' = Step("analyze_interrupted", None, None, 0)
    /\ UNCHANGED <<session, completion, answer_cache, use_search_index,
                   results_file, checkpoint_file, ops, DISCOVERY_QUESTIONS,
                   config, search_available>>

\* DiscoveryWorkshopCLI.show_discovery_progress: an exception of
\* get_discovery_summary ends the run in "except Exception" of run_workshop
show_discovery_progress ==
    /\ RunPosition = "progress"
    /\ last' = Step(IF get_discovery_summary(answers).raises THEN "workshop_error"
                    ELSE "show_discovery_progress", None, None, 0)
    /\ UNCHANGED <<session, answers, completion, answer_cache, use_search_index,
                   results_file, checkpoint_file, batch, ops, DISCOVERY_QUESTIONS,
                   config, search_available, awaiting>>

\* the question-asking steps of the run (ask_critical_questions,
\* interactive_category_selection) and the export at its end
WorkshopQuestions ==
    /\ RunPosition = "questions"
    /\ \/ \E qid \in CatalogIds, accept \in BOOLEAN, reply \in {"X", "skip"} :
             ask_single_question(qid, accept, reply, TRUE)
       \/ export_discovery_results(TRUE)

WorkshopInit ==
    /\ DISCOVERY_QUESTIONS = Catalog(NumQuestions)
    /\ config \in MissingSettings
    /\ search_available \in BOOLEAN
    /\ awaiting = None
    /\ session = "none"
    /\ answers = EmptyDict
    /\ completion = NewCompletion
    /\ answer_cache = EmptyDict
    /\ use_search_index = TRUE
    /\ results_file \in {NoFile} \cup { <<f>> : f \in ForeignSnapshots }
    /\ checkpoint_file = NoFile
    /\ batch = 0
    /\ last = Step("init", None, None, 0)
    /\ ops = 0

WorkshopNext ==
    \/ \E rejecting \in { c \in { Clients[i] : i \in 1..Len(Clients) } :
                              ClientSettings(c) \cap config # {} } \cup {None} :
          construct_workshop(rejecting)
    \/ run_cancelled
    \/ /\ RunPosition = "confirm"
       /\ \E readOK, indexOK \in BOOLEAN : start_discovery_workshop(TRUE, readOK, indexOK)
    \/ /\ RunPosition = "analyze"
       /\ analyze_documents_search
    \/ /\ RunPosition = "analyze"
       /\ \E listing \in {"error", "empty", "artifacts"},
             items \in {<< >>} \cup { <<i>> : i \in DocumentItems } :
             analyze_from_blob_storage(listing, items)
    \/ search_step
    \/ search_finish
    \/ analysis_interrupted
    \/ show_discovery_progress
    \/ WorkshopQuestions

WorkshopSpec == WorkshopInit /\ [][WorkshopNext]_vars

---------------------------------------------------------------------------
(* Properties *)

\* the steps taken by analyze_documents (search path and blob-storage path)
ExtractionOps ==
    {"analyze_documents", "search_skip", "search_await", "search_candidate",
     "analyze_done", "blob_error", "blob_empty", "blob_artifacts"}
        \cup FailureOutcomes \cup EmptyOutcomes

\* the sources of automated candidates
AutomatedSources == {"document", "search_index"}

\* the position of a question id in the catalog
CatalogIndex(qid) ==
    CHOOSE i \in 1..Len(DISCOVERY_QUESTIONS) : DISCOVERY_QUESTIONS[i].id = qid

\* the fields of an Answer that a snapshot carries
CoreFields(a) ==
    [answer |-> a.answer, source |-> a.source, confidence |-> a.confidence,
     document_reference |-> a.document_reference]

\* C1: whenever an operation has returned, the stored completion_percentage
\* equals 100 * |answers| / |catalog| (this stored value is the one that
\* get_discovery_summary reports and export_discovery_results writes).
C1_CompletionUpToDate ==
    (Active /\ Idle) =>
        completion[1] * get_total_count
            = 100 * get_answered_count(answers) * completion[2]

\* C2: in every reachable state no question id is a key of both
\* session.answers and answer_cache.
C2_AnswersAndCacheDisjoint ==
    (DOMAIN answers) \cap (DOMAIN answer_cache) = {}

C4_WitnessSearch ==
    /\ last.op = "search_skip"
    /\ last.q \in DOMAIN answers
    /\ answers[last.q].source = "user_input"

C5_WitnessAtThreshold ==
    /\ last.op = "search_candidate"
    /\ last.conf = confidence_threshold
    /\ last.q \in DOMAIN answers

\* C6: after ask_user_question(q, text) the entry session.answers[q] has
\* answer = text, source = user_input and confidence = 1.0, whatever q's
\* state was before.
C6_UserAnswerRecorded ==
    last.op = "ask_user_question" =>
        /\ last.q \in DOMAIN answers
        /\ answers[last.q].question_id = last.q
        /\ answers[last.q].answer = last.text
        /\ answers[last.q].source = "user_input"
        /\ answers[last.q].confidence = UserConfidence

\* the user answered a question for which a candidate was pending
C6_Witness ==
    /\ last.op = "ask_user_question"
    /\ last.q \in DOMAIN answer_cache
    /\ answers[last.q].answer = last.text

\* C7: after ask_user_question(q, text) the answer cache has no entry for q.
C7_UserAnswerClearsCache ==
    last.op = "ask_user_question" => last.q \notin DOMAIN answer_cache

\* the result of importing the snapshot that export builds for ans
RoundTrip(sess, ans, compl) ==
    ImportLoop(ExportResults(sess, ans, compl).answers, EmptyDict)

\* C8: for every reachable session, export followed by import of the written
\* snapshot gives the same question ids and, per id, the same answer text,
\* source, confidence and document_reference.
C8_RoundTrip ==
    (Active /\ Idle) =>
        /\ ~ExportRaises(answers)
        /\ RoundTrip(session, answers, completion).ok
        /\ DOMAIN RoundTrip(session, answers, completion).answers = DOMAIN answers
        /\ \A qid \in DOMAIN answers :
              CoreFields(RoundTrip(session, answers, completion).answers[qid])
                  = CoreFields(answers[qid])

\* C9: with an active session get_critical_gaps returns exactly the CRITICAL
\* catalog questions that are not keys of session.answers, in catalog order,
\* and the empty list iff every CRITICAL question is a key.
C9_CriticalGaps ==
    Active =>
        LET gaps == get_critical_gaps(session, answers)
            critical == { qid \in CatalogIds : Question(qid).priority = "critical" }
        IN  /\ { gaps[i].id : i \in 1..Len(gaps) } = critical \ DOMAIN answers
            /\ \A i \in 1..Len(gaps) : gaps[i] = Question(gaps[i].id)
            /\ \A i, j \in 1..Len(gaps) :
                  i < j => CatalogIndex(gaps[i].id) < CatalogIndex(gaps[j].id)
            /\ (gaps = << >>) <=> (critical \subseteq DOMAIN answers)

\* one CRITICAL question is answered, one is a gap, and a question of
\* another priority is unanswered too
C9_Witness ==
    /\ Active
    /\ Len(get_critical_gaps(session, answers)) = 1
    /\ \E qid \in DOMAIN answers : qid \in CatalogIds /\ Question(qid).priority = "critical"
    /\ \E qid \in CatalogIds \ DOMAIN answers : Question(qid).priority # "critical"

\* C10: after import_discovery_results or the auto-load of
\* start_discovery_workshop every key of session.answers is a catalog id
\* (an answer with an unresolvable question_id is dropped).
C10_ImportDropsUnknownIds ==
    last.op \in {"import_discovery_results", "start_discovery_workshop"}
        => DOMAIN answers \subseteq CatalogIds

\* the snapshot file that the load which produced this state has read
LoadedFile ==
    IF last.op = "start_discovery_workshop" \/ last.text = "results"
    THEN results_file ELSE checkpoint_file

\* the question ids of the answers list of a snapshot file
SnapshotIds(file) ==
    { file[1].answers[i].question_id : i \in 1..Len(file[1].answers) }

\* a load (auto-load of start_discovery_workshop, or
\* import_discovery_results) has just completed
JustLoaded ==
    \/ last.op = "start_discovery_workshop" /\ last.text = "auto_loaded"
    \/ last.op = "import_discovery_results"

\* C11: after resuming from a snapshot whose answers cover a subset S of the
\* current catalog, the session is active, the keys of session.answers are
\* exactly S, completion_percentage is 100 * |S| / |catalog| for the current
\* catalog, and get_missing_information() returns every catalog question
\* that is not in S.
C11_ResumeFromSubset ==
    (JustLoaded /\ SnapshotIds(LoadedFile) \subseteq CatalogIds) =>
        LET S == SnapshotIds(LoadedFile)
            missing == get_missing_information(session, answers, None)
        IN  /\ Active
            /\ DOMAIN answers = S
            /\ completion[1] * Len(DISCOVERY_QUESTIONS)
                  = 100 * Cardinality(S) * completion[2]
            /\ { missing[i].id : i \in 1..Len(missing) } = CatalogIds \ S

\* the auto-load read a snapshot that answers some but not all catalog
\* questions and whose own missing list does not name a question that is
\* missing now
C11_Witness ==
    /\ last.op = "start_discovery_workshop" /\ last.text = "auto_loaded"
    /\ SnapshotIds(results_file) # {}
    /\ SnapshotIds(results_file) \subseteq CatalogIds
    /\ \E qid \in CatalogIds \ SnapshotIds(results_file) :
          /\ \A i \in 1..Len(results_file[1].missing_information) :
                results_file[1].missing_information[i] # qid
          /\ \E i \in 1..Len(get_missing_information(session, answers, None)) :
                get_missing_information(session, answers, None)[i].id = qid

\* C12: when the iteration of an extraction batch for one question fails
\* (the search or the oracle call raises, or the oracle's output cannot be
\* parsed), the question gets no answer and no cache entry, nothing else in
\* session.answers and answer_cache changes, the loop goes on with the next
\* question, and a running batch can always take its next step and return.
C12_FailureIsolated ==
    /\ [](~Idle => ENABLED (search_step \/ search_finish))
    /\ [][ last'.op \in FailureOutcomes =>
              /\ answers' = answers
              /\ answer_cache' = answer_cache
              /\ batch' = batch + 1 ]_vars

\* the oracle's output for a question could not be parsed, after an earlier
\* question of the same batch was resolved and before the batch went on to
\* the remaining questions
C12_Witness ==
    /\ last.op = "parse_error"
    /\ last.q \notin DOMAIN answers /\ last.q \notin DOMAIN answer_cache
    /\ batch \in 3..Len(SearchOrder)
    /\ \E qid \in (DOMAIN answers) \cup (DOMAIN answer_cache) :
          qid = SearchOrder[1].id

\* C13: when reading the prior snapshot fails during resume (no file, an
\* unreadable file, or a malformed entry partway through the answers list),
\* the agent is in the state of a plain start: an active session with no
\* partially loaded answers and a completion_percentage that matches its
\* answers.
C13_FailedResumeIsPlainStart ==
    (last.op = "start_discovery_workshop"
        /\ last.text \in {"no_previous_session", "auto_load_failed"}) =>
        /\ Active
        /\ answers = EmptyDict
        /\ completion[1] * get_total_count
              = 100 * get_answered_count(answers) * completion[2]

\* the outcomes of a call of ask_user_question: it returned, or it raised
AskOps == {"ask_user_question", "ask_user_question_raised"}

\* C14: when a session has written an automatic checkpoint and the process
\* ends before any explicit export, the next start_discovery_workshop with
\* auto_resume restores the answers contained in that checkpoint.
C14_CheckpointRestored ==
    [][ ( /\ last.op = "restart"
          /\ last'.op = "start_discovery_workshop" /\ last'.text # None
          /\ checkpoint_file # NoFile /\ results_file = NoFile )
        => \A i \in 1..Len(checkpoint_file[1].answers) :
              LET e == checkpoint_file[1].answers[i]
              IN  /\ e.question_id \in DOMAIN answers'
                  /\ answers'[e.question_id].answer = e.answer ]_vars

\* the checkpoint fell due in this state, and the checkpoint file does not
\* hold this state's snapshot: the write has failed
CheckpointMissed ==
    /\ CheckpointDue(answers)
    /\ \/ ExportRaises(answers)
       \/ checkpoint_file # << ExportResults(session, answers, completion) >>

\* C15: when the automatic checkpoint write fails during ask_user_question,
\* the call still returns, the new answer is recorded in session.answers,
\* completion_percentage is up to date, and the session stays active and
\* accepts further operations.
C15_CheckpointFailureNotFatal ==
    (last.op \in AskOps /\ CheckpointMissed) =>
        /\ last.op = "ask_user_question"
        /\ Active /\ Idle
        /\ last.q \in DOMAIN answers
        /\ answers[last.q] = UserAnswer(last.q, last.text)
        /\ completion[1] * get_total_count
              = 100 * get_answered_count(answers) * completion[2]
        /\ ops < MaxOps => ENABLED ask_user_question(last.q, "X", TRUE)

\* the fifth answer of the session was recorded while the checkpoint file
\* could not be written
C15_Witness ==
    /\ last.op = "ask_user_question"
    /\ get_answered_count(answers) = auto_save_interval
    /\ ~ExportRaises(answers)
    /\ CheckpointMissed
    /\ checkpoint_file = NoFile

\* C16: a call of ask_user_question triggers the automatic checkpoint
\* exactly when it records the N-th, 2N-th, ... answer of the session (N =
\* auto_save_interval): a call that adds an answer and brings the number of
\* answers to a multiple of N triggers it; a call that overwrites an
\* existing answer triggers none.
C16_CheckpointEveryNth ==
    [][ last'.op \in AskOps =>
            ( CheckpointDue(answers')
                <=> ( /\ last'.q \notin DOMAIN answers
                      /\ get_answered_count(answers') % auto_save_interval = 0 ) )
      ]_vars

\* the severities that occur in a list of findings
Severities(result) == { result.findings[i] : i \in 1..Len(result.findings) }

\* answer texts on which the validators are compared
ValidatorTexts ==
    InterviewTexts \cup UserTexts
        \cup {"", "8.8.8.8/30", "RPO 4h, RTO 8h, geo-redundant", "$50k"}

\* C17: validation never blocks recording: every call of ask_user_question
\* returns with the answer written into session.answers, whatever findings
\* validate_answer produces for it (findings of severity ERROR included),
\* and validate_answer does not raise.
C17_ValidationNeverBlocks ==
    last.op \in AskOps =>
        /\ last.op = "ask_user_question"
        /\ ~validate_answer(last.q, last.text).raises
        /\ last.q \in DOMAIN answers
        /\ answers[last.q].answer = last.text
        /\ answers[last.q].source = "user_input"

\* an answer for which the validator reports an ERROR was recorded
C17_Witness ==
    /\ last.op = "ask_user_question"
    /\ "error" \in Severities(validate_answer(last.q, last.text))
    /\ last.q \in DOMAIN answers
    /\ answers[last.q].answer = last.text

\* C18: for a question id that is not a key of VALIDATORS, validate_answer
\* returns the empty list of findings for every answer text, and does not
\* raise.
C18_NoValidatorNoFindings ==
    \A qid \in ({last.q} \cup CatalogIds \cup {UnknownId}) \ (KeyedIds \cup {None}) :
        \A text \in ValidatorTexts \cup {last.text} :
            validate_answer(qid, text) = Findings(<< >>)

\* the user answered a question without validator with a text for which
\* the validators of keyed questions do report findings
C18_Witness ==
    /\ last.op = "ask_user_question"
    /\ last.q \notin KeyedIds
    /\ validate_answer(last.q, last.text).findings = << >>
    /\ "error" \in Severities(validate_answer("net_001", last.text))
    /\ "warning" \in Severities(validate_answer("sec_001", last.text))

\* C19: accepting the pending candidate for q puts that same answer (text,
\* source, confidence, document_reference) into session.answers[q], removes
\* q from answer_cache, and leaves every other entry of session.answers and
\* of answer_cache unchanged.
C19_AcceptPromotes ==
    [][ last'.op = "accept_cached" =>
            /\ last'.q \in DOMAIN answer_cache
            /\ last'.q \in DOMAIN answers'
            /\ CoreFields(answers'[last'.q]) = CoreFields(answer_cache[last'.q])
            /\ DOMAIN answer_cache' = (DOMAIN answer_cache) \ {last'.q}
            /\ \A k \in DOMAIN answer_cache' : answer_cache'[k] = answer_cache[k]
            /\ DOMAIN answers' = (DOMAIN answers) \cup {last'.q}
            /\ \A k \in (DOMAIN answers) \ {last'.q} : answers'[k] = answers[k]
      ]_vars

\* a candidate was accepted while another candidate stays pending
C19_Witness ==
    /\ last.op = "accept_cached"
    /\ last.q \in DOMAIN answers
    /\ answers[last.q].source = "search_index"
    /\ last.q \notin DOMAIN answer_cache
    /\ answer_cache # EmptyDict
    /\ \E k \in DOMAIN answers : answers[k].source = "user_input"

\* C20: explicitly rejecting the pending candidate for q removes q from
\* answer_cache and leaves session.answers unchanged, also when the user
\* then skips the question.
C20_RejectDiscards ==
    [][ (last'.op = "skip" /\ last'.q \in DOMAIN answer_cache) =>
            /\ last'.q \notin DOMAIN answer_cache'
            /\ answers' = answers ]_vars

\* a snapshot with its missing_information list replaced
WithMissing(results, missing) == [results EXCEPT !.missing_information = missing]

\* a snapshot without the key missing_information
WithoutMissing(results) ==
    [k \in (DOMAIN results) \ {"missing_information"} |-> results[k]]

\* the snapshots that have the answers list of results and another
\* missing_information list: an empty one, one that names every catalog
\* question and a question of an older catalog, or none at all
MissingVariants(results) ==
    { WithMissing(results, << >>),
      WithMissing(results, [i \in 1..Len(DISCOVERY_QUESTIONS) |-> DISCOVERY_QUESTIONS[i].id]
                               \o << UnknownId >>),
      WithoutMissing(results) }

\* C22: import depends only on the answers list of the snapshot: a snapshot
\* with the same answers list and another missing_information list (stale,
\* empty or omitted) loads to the same answers mapping and the same
\* completion_percentage.
C22_ImportIgnoresMissingList ==
    JustLoaded =>
        \A other \in MissingVariants(LoadedFile[1]) :
            /\ Loaded(<<other>>).ok
            /\ Loaded(<<other>>).answers = answers
            /\ Loaded(<<other>>).completion = completion

\* a snapshot was imported whose missing list names a question and whose
\* answers list is not empty
C22_Witness ==
    /\ last.op = "import_discovery_results"
    /\ answers # EmptyDict
    /\ LoadedFile[1].missing_information # << >>
    /\ \A other \in MissingVariants(LoadedFile[1]) : other # LoadedFile[1]

\* the snapshot files that export_discovery_results has written
ExportedFiles == {results_file, checkpoint_file} \ {NoFile}

\* the number of entries of a list of ids that are qid
Occurrences(ids, qid) == Cardinality({ i \in 1..Len(ids) : ids[i] = qid })

\* C23: in every snapshot written by export_discovery_results each catalog
\* question id is in exactly one of the lists answers and
\* missing_information, and the completion value of the snapshot is
\* 100 * len(answers list) / len(catalog).
C23_SnapshotPartition ==
    \A file \in ExportedFiles :
        /\ \A qid \in CatalogIds :
              Occurrences([i \in 1..Len(file[1].answers) |-> file[1].answers[i].question_id], qid)
                + Occurrences(file[1].missing_information, qid) = 1
        /\ file[1].completion[1] * Len(DISCOVERY_QUESTIONS)
              = 100 * Len(file[1].answers) * file[1].completion[2]

\* the sum of the answered counts of a by_category mapping
RECURSIVE SumAnswered(_, _)
SumAnswered(by_category, cats) ==
    IF cats = << >> THEN 0
    ELSE by_category[Head(cats)].answered + SumAnswered(by_category, Tail(cats))

\* C24: in every reachable state with a session, get_discovery_summary
\* returns, for each category, answered = the number of catalog questions
\* of the category whose id is a key of session.answers and total = the
\* number of catalog questions of the category, and the answered counts
\* summed over the categories are |session.answers|.
C24_SummaryByCategory ==
    (Active /\ Idle) =>
        /\ ~get_discovery_summary(answers).raises
        /\ \A i \in 1..Len(DiscoveryCategory) :
              LET c == DiscoveryCategory[i]
                  of_c == { qid \in CatalogIds : Question(qid).category = c }
              IN  /\ get_discovery_summary(answers).by_category[c].answered
                        = Cardinality(of_c \cap DOMAIN answers)
                  /\ get_discovery_summary(answers).by_category[c].total
                        = Cardinality(of_c)
        /\ SumAnswered(get_discovery_summary(answers).by_category, DiscoveryCategory)
              = Cardinality(DOMAIN answers)

\* C21: answer_cache holds at most one candidate per question id: a
\* candidate below the threshold becomes the cache entry of its question,
\* replacing the candidate that was pending for it, and no other entry of
\* the cache changes.
C21_LastCandidateWins ==
    [][ (last'.op = "search_candidate" /\ last'.conf < confidence_threshold) =>
            /\ DOMAIN answer_cache' = (DOMAIN answer_cache) \cup {last'.q}
            /\ answer_cache'[last'.q].question_id = last'.q
            /\ answer_cache'[last'.q].answer = last'.text
            /\ answer_cache'[last'.q].confidence = last'.conf
            /\ answer_cache'[last'.q].source = "search_index"
            /\ \A k \in (DOMAIN answer_cache) \ {last'.q} :
                  answer_cache'[k] = answer_cache[k] ]_vars

\* in the first call made on the interview's session a second candidate
\* arrived for a question whose first candidate was pending, and it is the
\* cache entry now
C21_Witness ==
    /\ ops = 1
    /\ last.op = "search_candidate"
    /\ last.conf < confidence_threshold
    /\ last.q \notin DOMAIN answers
    /\ last.q = DISCOVERY_QUESTIONS[auto_save_interval].id
    /\ answer_cache[last.q].confidence = last.conf
    /\ answer_cache[last.q] # PendingCandidate(last.q)

\* C25: no write is lost to a check-then-act race: when question q has
\* become a key of session.answers after the iteration for q passed its
\* 'already answered' check and before that iteration writes, the
\* iteration's candidate does not overwrite session.answers[q].
C25_NoLostWrite ==
    [][ (awaiting # None /\ awaiting \in DOMAIN answers
            /\ last'.op = "search_candidate") =>
            answers'[awaiting] = answers[awaiting] ]_vars

\* C26: when an extraction batch is interrupted, every answer that the
\* batch has accepted is in session.answers, unchanged, in the state left by
\* the interruption: neither a later step of the batch nor the interruption
\* removes or changes an accepted answer.
C26_InterruptionKeepsAccepted ==
    [][ last'.op \in ExtractionOps \cup {"analyze_interrupted"} =>
            \A qid \in DOMAIN answers :
                /\ qid \in DOMAIN answers'
                /\ answers'[qid] = answers[qid] ]_vars

\* a batch was interrupted after it had accepted an answer and before every
\* question was answered
C26_Witness ==
    /\ last.op = "analyze_interrupted"
    /\ Idle
    /\ \E qid \in DOMAIN answers : answers[qid].source = "search_index"
    /\ \E qid \in CatalogIds : qid \notin DOMAIN answers /\ qid \notin DOMAIN answer_cache

\* the failures of a collaborator in the document-analysis step: of a
\* search query, of the oracle, of the listing of the document store
AnalysisFailures == FailureOutcomes \cup {"blob_error"}

\* C27: a failure of a collaborator during the document-analysis step does
\* not end the workshop run: after it the run can take its next step
\* towards the question-asking steps (the rest of the batch, then the
\* progress display that precedes the questions).
C27_RunGoesOn ==
    last.op \in AnalysisFailures =>
        ENABLED (search_step \/ search_finish \/ show_discovery_progress)

\* C28: when the search collaborator is unavailable, an analyze_documents
\* that has returned has scanned the document store: it did not finish on
\* the search path.
C28_FallbackToStore ==
    (~search_available /\ Idle /\ last.op \in ExtractionOps) =>
        last.op \in {"blob_error", "blob_empty", "blob_artifacts"}

\* C29: in a run whose configuration lacks a required setting no session
\* is ever started: the run has not passed the construction, and the error
\* that ended it names every missing setting (as Config.validate does).
C29_AbortBeforeSession ==
    validate(config).raises =>
        /\ last.op \in {"init", "construction_failed"}
        /\ session = "none"
        /\ last.op = "construction_failed" =>
              validate(config).names \subseteq ClientSettings(last.text)

\* C30: every Answer in session.answers and in answer_cache has a
\* confidence within [0.0, 1.0].
C30_ConfidenceInRange ==
    /\ \A qid \in DOMAIN answers :
          answers[qid].confidence >= 0 /\ answers[qid].confidence <= 100
    /\ \A qid \in DOMAIN answer_cache :
          answer_cache[qid].confidence >= 0 /\ answer_cache[qid].confidence <= 100

\* C31: while a session is active every key of session.answers is the id
\* of a question of the catalog, so that neither get_discovery_summary nor
\* export_discovery_results fails on a catalog lookup.
C31_AnswerKeysInCatalog ==
    Active =>
        /\ \A qid \in DOMAIN answers : qid \in CatalogIds
        /\ ~get_discovery_summary(answers).raises
        /\ ~ExportRaises(answers)

\* the operations that install a session on the agent
InstallOps == {"start_discovery_workshop", "import_discovery_results", "import_failed"}

\* C32: when start_discovery_workshop or import_discovery_results has
\* installed a session, answer_cache holds no entry (an entry could only be
\* left over from the session that the agent ran before).
C32_CacheOfLiveSessionOnly ==
    last.op \in InstallOps => answer_cache = EmptyDict

\* C33: the per-source counts of get_discovery_summary sum to the reported
\* "answered", which is the number of entries of session.answers.
C33_SummaryBySource ==
    (Active /\ ~get_discovery_summary(answers).raises) =>
        /\ get_discovery_summary(answers).answered = Cardinality(DOMAIN answers)
        /\ get_discovery_summary(answers).answers_from_documents
              + get_discovery_summary(answers).answers_from_user
                = get_discovery_summary(answers).answered

\* the severities of the findings of validate_ip_range for the answer that
\* the last call of ask_user_question has validated
IpFindings == Severities(validate_ip_range(last.text))

\* the last step was ask_user_question on the question whose validator is
\* validate_ip_range
IpRangeValidated ==
    last.op = "ask_user_question" /\ VALIDATORS(last.q) = "validate_ip_range"

C38_NoErrorWithSuccess ==
    IpRangeValidated => ~("error" \in IpFindings /\ "success" \in IpFindings)

\* C35: every entry of session.answers and of answer_cache is stored under
\* its own id: the question_id of the Answer is the key.
C35_StoredUnderOwnId ==
    /\ \A k \in DOMAIN answers : answers[k].question_id = k
    /\ \A k \in DOMAIN answer_cache : answer_cache[k].question_id = k

\* answers written by the user or the import and by the search path are in
\* session.answers, and a candidate is pending
C35_Witness ==
    /\ \E k \in DOMAIN answers : answers[k].source = "search_index"
    /\ \E k \in DOMAIN answers : answers[k].source = "user_input"
    /\ \E k \in DOMAIN answer_cache : k # DISCOVERY_QUESTIONS[1].id

\* d and e have the same entries at every key other than k
SameElsewhere(d, e, k) ==
    /\ (DOMAIN d) \ {k} = (DOMAIN e) \ {k}
    /\ \A x \in (DOMAIN d) \ {k} : d[x] = e[x]

\* C36: a call of ask_user_question(q, text) changes session.answers only
\* at key q, and leaves the entries of answer_cache for the other ids as
\* they are.
C36_AskChangesOnlyItsKey ==
    [][ last'.op \in AskOps =>
            /\ SameElsewhere(answers, answers', last'.q)
            /\ SameElsewhere(answer_cache, answer_cache', last'.q) ]_vars

\* an answer was recorded while other answers and a candidate for another
\* question were there
C36_Witness ==
    /\ last.op = "ask_user_question"
    /\ last.q \in DOMAIN answers
    /\ Cardinality((DOMAIN answers) \ {last.q}) >= auto_save_interval - 1
    /\ (DOMAIN answer_cache) \ {last.q} # {}

\* C39: on the search path a candidate whose oracle output has no
\* "confidence" gets the confidence 0.8, which is below the threshold: it
\* is put into answer_cache and not into session.answers.
C39_DefaultConfidenceDeferred ==
    (last.op = "search_candidate" /\ last.conf = DefaultConfidence) =>
        /\ ~AutoAccept(last.conf)
        /\ last.q \in DOMAIN answer_cache
        /\ answer_cache[last.q].confidence = 80
        /\ answer_cache[last.q].answer = last.text
        /\ last.q \notin DOMAIN answers

\* a candidate without confidence was deferred
C39_Witness ==
    /\ last.op = "search_candidate"
    /\ last.conf = DefaultConfidence
    /\ last.q \in DOMAIN answer_cache
    /\ answer_cache[last.q].source = "search_index"
    /\ confidence_threshold = 85

\* the operations that only read the session
ReadOnlyOps == QueryOps \cup {"export_discovery_results", "export_failed"}

\* the ids of the entries of the "answers" list of a snapshot file
FileIds(file) == { file[1].answers[i].question_id : i \in 1..Len(file[1].answers) }

\* C37: the query operations and export_discovery_results leave
\* session.answers, completion_percentage and answer_cache unchanged; an
\* export is not terminal: after it the session still accepts an answer,
\* and an export that follows an answer holds that answer.
C37_ReadOnlyAndNotTerminal ==
    /\ [][ last'.op \in ReadOnlyOps =>
              /\ answers' = answers
              /\ completion' = completion
              /\ answer_cache' = answer_cache
              /\ session' = session ]_vars
    /\ [][ (last.op = "ask_user_question" /\ last'.op = "export_discovery_results") =>
              /\ last.q \in FileIds(results_file')
              /\ \A i \in 1..Len(results_file'[1].answers) :
                    results_file'[1].answers[i].question_id = last.q =>
                        results_file'[1].answers[i].answer = last.text ]_vars
    /\ []( (last.op \in {"export_discovery_results", "export_failed"} /\ ops < MaxOps) =>
              ENABLED (\E qid \in CatalogIds, text \in InterviewTexts :
                          ask_user_question(qid, text, TRUE)) )

\* an export (the automatic checkpoint) was followed by another answer and
\* by a second export, whose snapshot holds the later answer
C37_Witness ==
    /\ last.op = "export_discovery_results"
    /\ checkpoint_file # NoFile
    /\ results_file # NoFile
    /\ FileIds(checkpoint_file) # FileIds(results_file)
    /\ FileIds(checkpoint_file) \subseteq FileIds(results_file)
    /\ FileIds(results_file) = DOMAIN answers

====
